---- MODULE Spec2Model ----
(***************************************************************************)
(* Model of log_viewer.py (Maquette log viewer): main() builds a Log,      *)
(* whose constructor reads the file, parses it line by line into ten       *)
(* accumulators, interpolates the total AOT, assembles the DataFrame, and  *)
(* then main() writes two charts and a table.                              *)
(*                                                                         *)
(* Numbers are fixed-point, in hundredths (One = 1.00).  A line of the log *)
(* is abstracted by what the regular expressions and the tokenisers of     *)
(* _parse_maqt_log see of it: how it starts, which substrings it holds and *)
(* the tokens text[10:18], split(':')[1], split(':')[2], split('=')[1] and *)
(* text[14:].                                                              *)
(***************************************************************************)
EXTENDS Integers, Sequences, FiniteSets, TLC

VARIABLES file, pc, raw, line,
          date_list, rh_list, props_arr, props_list, cloud_list,
          cirrus_list, ozone_list, weight_prev_cams_date_list,
          weight_next_cams_date_list, prev_aot_list, next_aot_list,
          total_AOT_list, df, stdout, exc, raised_in, exit_code, artifacts

vars == <<file, pc, raw, line,
          date_list, rh_list, props_arr, props_list, cloud_list,
          cirrus_list, ozone_list, weight_prev_cams_date_list,
          weight_next_cams_date_list, prev_aot_list, next_aot_list,
          total_AOT_list, df, stdout, exc, raised_in, exit_code, artifacts>>

accs == <<date_list, rh_list, props_arr, props_list, cloud_list,
          cirrus_list, ozone_list, weight_prev_cams_date_list,
          weight_next_cams_date_list, prev_aot_list, next_aot_list>>

(***************************************************************************)
(* Bounds of the explored inputs.                                          *)
(***************************************************************************)
\* longest log made of arbitrary lines of the alphabet Lines
MaxLines == 3
\* most per-date records in a log made of whole records
MaxRecords == 2
\* most lines of each weight / AOT field in a log made for the interpolation
MaxLen == 2

(***************************************************************************)
(* Numbers.                                                                *)
(***************************************************************************)
Hundred == 100
One == Hundred
\* the missing value pandas fills in (NaN / NaT); every real value is >= 0
NaN == -1

FMul(a, b) == IF a = NaN \/ b = NaN THEN NaN ELSE (a * b) \div One
FAdd(a, b) == IF a = NaN \/ b = NaN THEN NaN ELSE a + b

Max(S) == CHOOSE m \in S : \A x \in S : x <= m

(***************************************************************************)
(* Tokens and lines.                                                       *)
(***************************************************************************)
BadTok == [kind |-> "bad", v |-> 0, ps |-> <<>>]
FloatTok(x) == [kind |-> "float", v |-> x, ps |-> <<>>]
PairsTok(s) == [kind |-> "pairs", v |-> 0, ps |-> s]

Fields == <<"date", "rh", "props", "cloud", "cirrus", "ozone",
            "wprev", "wnext", "paot", "naot">>

MkLine(start, has, date, tok1, tok2, eq, tail) ==
    [start |-> start, has |-> has, date |-> date, tok1 |-> tok1,
     tok2 |-> tok2, eq |-> eq, tail |-> tail]

\* "L1C_T31TCJ20200101T1050.." : text[10:18] is the date
LDate(d) == MkLine("L1C", {}, FloatTok(d), BadTok, BadTok, BadTok, BadTok)
\* "L1C_T31" : too short to hold a date
LDateBad == MkLine("L1C", {}, BadTok, BadTok, BadTok, BadTok, BadTok)
\* "average:55.0"
LRh(x) == MkLine("average", {}, BadTok, FloatTok(x), BadTok, BadTok, BadTok)
\* "temporalInterpProps:[('sea_salt',0.7),('dust',0.3)]"
LProps(s) == MkLine("temporalInterpProps", {}, BadTok, PairsTok(s), BadTok,
                    BadTok, BadTok)
\* "INFO: couverture nuageuse (avec ombres): 45.0%"
LCloud(p) == MkLine("other", {"cloud"}, BadTok, BadTok, FloatTok(p), BadTok,
                    BadTok)
\* "couverture nuageuse (avec ombres) n/a" : no third ':' token
LCloudBad == MkLine("other", {"cloud"}, BadTok, BadTok, BadTok, BadTok,
                    BadTok)
\* "taux de cirrus 0.05"
LCirrus(x) == MkLine("other", {"cirrus"}, BadTok, BadTok, BadTok, BadTok,
                     FloatTok(x))
\* "ozone=0.02"
LOzone(x) == MkLine("other", {"ozone"}, BadTok, BadTok, BadTok, FloatTok(x),
                    BadTok)
\* "weightPrevCAMSdate: 0.4"
LWPrev(x) == MkLine("other", {"wprev"}, BadTok, FloatTok(x), BadTok, BadTok,
                    BadTok)
\* "weightNextCAMSdate: 0.6"
LWNext(x) == MkLine("other", {"wnext"}, BadTok, FloatTok(x), BadTok, BadTok,
                    BadTok)
\* "prev AOT:[('dust',0.04),('sea_salt',0.06)]"
LPrevAOT(s) == MkLine("other", {"paot"}, BadTok, PairsTok(s), BadTok, BadTok,
                      BadTok)
\* "next AOT:[('dust',0.1),('sea_salt',0.1)]"
LNextAOT(s) == MkLine("other", {"naot"}, BadTok, PairsTok(s), BadTok, BadTok,
                      BadTok)
\* "weightPrevCAMSdate, weightNextCAMSdate: 0.5" : two patterns, one token
LWBoth(x) == MkLine("other", {"wprev", "wnext"}, BadTok, FloatTok(x), BadTok,
                    BadTok, BadTok)
\* "weightPrevCAMSdate (prev AOT): 0.5" : a float where a pair list is read
LWPrevAOT(x) == MkLine("other", {"wprev", "paot"}, BadTok, FloatTok(x),
                       BadTok, BadTok, BadTok)
\* "INFO: start of processing"
LNone == MkLine("other", {}, BadTok, BadTok, BadTok, BadTok, BadTok)

\* proportion maps, as the pair lists written in the log
PropsDS == << <<"sea_salt", 70>>, <<"dust", 30>> >>
PropsDS2 == << <<"dust", 50>>, <<"sea_salt", 50>> >>
PropsDT == << <<"dust", 20>>, <<"soot", 80>> >>
PropsD == << <<"dust", 100>> >>
PropsD2 == << <<"dust", 90>> >>
PropsE == << >>

Lines == {LDate(20200101), LDateBad, LRh(5500),
          LProps(PropsDS), LProps(PropsDT), LProps(PropsD), LProps(PropsE),
          LCloud(4500), LCloud(15000), LCloudBad,
          LWBoth(50), LWPrevAOT(50), LNone}

(***************************************************************************)
(* The logs explored.                                                      *)
(***************************************************************************)
ShortLogs == UNION {[1..n -> Lines] : n \in 0..MaxLines}

\* one per-date record: ten lines, one per field
RecordLines(d, wp, wn, pm) ==
    << LDate(d), LRh(5500), LCloud(4500), LCirrus(5), LOzone(2),
       LWPrev(wp), LWNext(wn),
       LPrevAOT(<< <<"dust", 4>>, <<"sea_salt", 6>> >>),
       LNextAOT(<< <<"sea_salt", 10>>, <<"dust", 10>> >>),
       LProps(pm) >>

RecordVariants ==
    {RecordLines(20200101, wp, One - wp, pm) :
        wp \in {40, 50}, pm \in {PropsDS, PropsDS2, PropsD, PropsD2}}

RECURSIVE Concat(_)
Concat(ss) == IF ss = <<>> THEN <<>> ELSE Head(ss) \o Concat(Tail(ss))

RecordLogs == {Concat(rs) : rs \in UNION {[1..n -> RecordVariants] :
                                             n \in 1..MaxRecords}}

\* a wprev lines, b prev-AOT lines, c wnext lines, d next-AOT lines, then a
\* proportion line; the i-th line of a field carries a value depending on i
WeightLog(a, b, c, d) ==
    [i \in 1..a |-> LWPrev(10 * i)]
    \o [i \in 1..b |-> LPrevAOT(<< <<"dust", 100 * i>> >>)]
    \o [i \in 1..c |-> LWNext(100 - 10 * i)]
    \o [i \in 1..d |-> LNextAOT(<< <<"dust", 200 * i>>, <<"soot", 100>> >>)]
    \o << LProps(PropsD) >>

WeightLogs == {WeightLog(a, b, c, d) : a \in 0..MaxLen, b \in 0..MaxLen,
                                        c \in 0..MaxLen, d \in 0..MaxLen}

Logs == ShortLogs \cup RecordLogs \cup WeightLogs

(***************************************************************************)
(* sorted(), OrderedDict() and numpy helpers.                              *)
(***************************************************************************)
NameRank(n) == CASE n = "dust" -> 1 [] n = "sea_salt" -> 2 [] n = "soot" -> 3

\* Python's order on (name, value) tuples
PairLess(p, q) == \/ NameRank(p[1]) < NameRank(q[1])
                  \/ p[1] = q[1] /\ p[2] < q[2]

RECURSIVE Insert(_, _)
Insert(p, s) == IF s = <<>> THEN <<p>>
                ELSE IF PairLess(p, Head(s)) THEN <<p>> \o s
                ELSE <<Head(s)>> \o Insert(p, Tail(s))

RECURSIVE Sorted(_)
Sorted(s) == IF s = <<>> THEN <<>> ELSE Insert(Head(s), Sorted(Tail(s)))

\* keys in first-insertion order, a repeated key keeps its last value
RECURSIVE OrderedDict(_)
OrderedDict(ps) ==
    IF ps = <<>> THEN [keys |-> <<>>, vals |-> <<>>]
    ELSE LET d == OrderedDict(SubSeq(ps, 1, Len(ps) - 1))
             p == ps[Len(ps)]
         IN IF \E i \in 1..Len(d.keys) : d.keys[i] = p[1]
            THEN [keys |-> d.keys,
                  vals |-> [i \in 1..Len(d.vals) |->
                              IF d.keys[i] = p[1] THEN p[2] ELSE d.vals[i]]]
            ELSE [keys |-> Append(d.keys, p[1]), vals |-> Append(d.vals, p[2])]

RECURSIVE Sum(_)
Sum(s) == IF s = <<>> THEN 0 ELSE Head(s) + Sum(Tail(s))

(***************************************************************************)
(* Line classification and extraction (_parse_maqt_log, one line).         *)
(***************************************************************************)
\* re.search(regex, text) is not None
Matches(f, l) ==
    CASE f = "date" -> l.start = "L1C"
      [] f = "rh" -> l.start = "average"
      [] f = "props" -> l.start = "temporalInterpProps"
      [] OTHER -> f \in l.has

\* the token the extractor of field f reads
Tok(f, l) ==
    CASE f = "date" -> l.date
      [] f = "cloud" -> l.tok2
      [] f = "cirrus" -> l.tail
      [] f = "ozone" -> l.eq
      [] OTHER -> l.tok1

MapFields == {"props", "paot", "naot"}

\* float(..), pd.to_datetime(..) or eval(..) accept the token
Parses(f, l) == Tok(f, l).kind = (IF f \in MapFields THEN "pairs" ELSE "float")

\* the division by 100 left out
Div100Forgotten(x) == x

\* / 100 of the cloud percentage
Div100(x) == x \div Hundred

\* the temporal_interp_props of a proportion line
InterpProps(l) == OrderedDict(Sorted(l.tok1.ps))

\* np.vstack refuses a row whose width differs from the array's
VstackFails(l) == Len(props_arr.data[1]) # Len(InterpProps(l).vals)

\* a payload that does not parse is skipped instead of raising
RaisesSkipsBadPayload(f, l) ==
    /\ Matches(f, l)
    /\ Parses(f, l)
    /\ f = "props" /\ props_list # <<>> /\ VstackFails(l)

\* the extractor of field f raises on line l
Raises(f, l) ==
    /\ Matches(f, l)
    /\ \/ ~Parses(f, l)
       \/ f = "props" /\ props_list # <<>> /\ VstackFails(l)

\* position of the first extractor that raises on l, 11 when none does
FirstFail(l) ==
    IF \E i \in 1..Len(Fields) : Raises(Fields[i], l)
    THEN CHOOSE i \in 1..Len(Fields) :
            /\ Raises(Fields[i], l)
            /\ \A j \in 1..(i - 1) : ~Raises(Fields[j], l)
    ELSE Len(Fields) + 1

FieldPos(f) == CHOOSE i \in 1..Len(Fields) : Fields[i] = f

\* the body of the if of field f runs to its end on line l
Fires(f, l) == Matches(f, l) /\ FieldPos(f) < FirstFail(l)

\* the value the extractor of scalar field f appends
Extract(f, l) ==
    CASE f = "cloud" -> Div100(Tok(f, l).v)
      [] f \in {"paot", "naot"} -> Sum(OrderedDict(Sorted(l.tok1.ps)).vals)
      [] OTHER -> Tok(f, l).v

\* list.append under the if of field f
Appended(lst, f, l) == IF Fires(f, l) THEN Append(lst, Extract(f, l)) ELSE lst

Unbound == [bound |-> FALSE, ndim |-> 0, data |-> <<>>]

\* props_arr after the proportion branch (lines 166-174)
PropsArrAfter(l) ==
    IF ~Fires("props", l) THEN props_arr
    ELSE IF props_list = <<>>
         THEN [bound |-> TRUE, ndim |-> 1, data |-> <<InterpProps(l).vals>>]
         ELSE [bound |-> TRUE, ndim |-> 2,
               data |-> Append(props_arr.data, InterpProps(l).vals)]

\* props_list after the proportion branch
PropsListAfter(l) ==
    IF Fires("props", l) /\ props_list = <<>> THEN InterpProps(l).keys
    ELSE props_list

(***************************************************************************)
(* The run.                                                                *)
(***************************************************************************)
NoFrame == [built |-> FALSE, nrows |-> 0, cols |-> <<>>, aerosols |-> <<>>,
            props |-> <<>>]

Init ==
    /\ file \in {[exists |-> FALSE, lines |-> <<>>]}
                \cup {[exists |-> TRUE, lines |-> ls] : ls \in Logs}
    /\ pc = "get_file_text"
    /\ raw = <<>>
    /\ line = 0
    /\ date_list = <<>> /\ rh_list = <<>> /\ props_list = <<>>
    /\ props_arr = Unbound
    /\ cloud_list = <<>> /\ cirrus_list = <<>> /\ ozone_list = <<>>
    /\ weight_prev_cams_date_list = <<>>
    /\ weight_next_cams_date_list = <<>>
    /\ prev_aot_list = <<>> /\ next_aot_list = <<>>
    /\ total_AOT_list = <<>>
    /\ df = NoFrame
    /\ stdout = <<>>
    /\ exc = "none"
    /\ raised_in = "none"
    /\ exit_code = 0
    /\ artifacts = <<>>

\* an exception nobody catches: traceback, the interpreter exits with 1
Uncaught(e, where) == /\ exc' = e
                      /\ raised_in' = where
                      /\ exit_code' = 1
                      /\ pc' = "exited"

\* the handler prints the message and returns instead of exiting
GetFileTextNoExit ==
    /\ pc = "get_file_text"
    /\ IF file.exists
       THEN /\ raw' = file.lines
            /\ UNCHANGED stdout
       ELSE /\ stdout' = Append(stdout, "ERROR: file not found")
            /\ UNCHANGED raw
    /\ pc' = "parse"
    /\ UNCHANGED <<file, line, accs, total_AOT_list, df, exc, raised_in,
                   exit_code, artifacts>>

\* _get_file_text
GetFileText ==
    /\ pc = "get_file_text"
    /\ IF file.exists
       THEN /\ raw' = file.lines
            /\ pc' = "parse"
            /\ UNCHANGED <<stdout, exit_code>>
       ELSE /\ stdout' = Append(stdout, "ERROR: file not found")
            /\ exit_code' = 1
            /\ pc' = "exited"
            /\ UNCHANGED raw
    /\ UNCHANGED <<file, line, accs, total_AOT_list, df, exc, raised_in, artifacts>>

\* one iteration of the for loop of _parse_maqt_log
ParseLine ==
    /\ pc = "parse"
    /\ line < Len(raw)
    /\ LET l == raw[line + 1] IN
       /\ date_list' = Appended(date_list, "date", l)
       /\ rh_list' = Appended(rh_list, "rh", l)
       /\ props_arr' = PropsArrAfter(l)
       /\ props_list' = PropsListAfter(l)
       /\ cloud_list' = Appended(cloud_list, "cloud", l)
       /\ cirrus_list' = Appended(cirrus_list, "cirrus", l)
       /\ ozone_list' = Appended(ozone_list, "ozone", l)
       /\ weight_prev_cams_date_list' =
              Appended(weight_prev_cams_date_list, "wprev", l)
       /\ weight_next_cams_date_list' =
              Appended(weight_next_cams_date_list, "wnext", l)
       /\ prev_aot_list' = Appended(prev_aot_list, "paot", l)
       /\ next_aot_list' = Appended(next_aot_list, "naot", l)
       /\ IF FirstFail(l) <= Len(Fields)
          THEN /\ Uncaught("ValueError", "_parse_maqt_log")
               /\ UNCHANGED line
          ELSE /\ line' = line + 1
               /\ UNCHANGED <<pc, exc, raised_in, exit_code>>
    /\ UNCHANGED <<file, raw, total_AOT_list, df, stdout, artifacts>>

\* the return statement of _parse_maqt_log (line 206)
ParseReturn ==
    /\ pc = "parse"
    /\ line = Len(raw)
    /\ IF props_arr.bound
       THEN /\ pc' = "interpolate"
            /\ UNCHANGED <<exc, raised_in, exit_code>>
       ELSE Uncaught("UnboundLocalError", "_parse_maqt_log")
    /\ UNCHANGED <<file, raw, line, accs, total_AOT_list, df, stdout,
                   artifacts>>

(***************************************************************************)
(* _interpolate_total_aot: numpy element-wise arithmetic, with numpy's     *)
(* broadcasting of one-dimensional arrays.                                 *)
(***************************************************************************)
\* shapes combine only when equal: no broadcasting
BroadcastableStrict(m, n) == m = n

\* two 1-D shapes combine when equal or when one of them is 1
Broadcastable(m, n) == m = n \/ m = 1 \/ n = 1

BroadcastLen(m, n) == IF m = 1 THEN n ELSE m

At(x, i) == IF Len(x) = 1 THEN x[1] ELSE x[i]

NpMul(x, y) == [i \in 1..BroadcastLen(Len(x), Len(y)) |-> FMul(At(x, i), At(y, i))]

NpAdd(x, y) == [i \in 1..BroadcastLen(Len(x), Len(y)) |-> FAdd(At(x, i), At(y, i))]

\* the expression raises "operands could not be broadcast together"
InterpolateRaises(wp, pa, wn, na) ==
    \/ ~Broadcastable(Len(wp), Len(pa))
    \/ ~Broadcastable(Len(wn), Len(na))
    \/ ~Broadcastable(BroadcastLen(Len(wp), Len(pa)),
                      BroadcastLen(Len(wn), Len(na)))

\* the previous weight used for both terms
InterpolateTotalAotOneWeight(wp, pa, wn, na) == NpAdd(NpMul(wp, pa), NpMul(wp, na))

InterpolateTotalAot(wp, pa, wn, na) == NpAdd(NpMul(wp, pa), NpMul(wn, na))

Interpolate ==
    /\ pc = "interpolate"
    /\ IF InterpolateRaises(weight_prev_cams_date_list, prev_aot_list,
                            weight_next_cams_date_list, next_aot_list)
       THEN /\ Uncaught("ValueError", "_interpolate_total_aot")
            /\ UNCHANGED total_AOT_list
       ELSE /\ total_AOT_list' =
                  InterpolateTotalAot(weight_prev_cams_date_list, prev_aot_list,
                                      weight_next_cams_date_list, next_aot_list)
            /\ pc' = "build"
            /\ UNCHANGED <<exc, raised_in, exit_code>>
    /\ UNCHANGED <<file, raw, line, accs, df, stdout, artifacts>>

(***************************************************************************)
(* _building_maqt_dataframe.                                               *)
(***************************************************************************)
\* the ten columns handed to pd.DataFrame(data={...})
ScalarData ==
    [Date |-> date_list, RH |-> rh_list, Cloud |-> cloud_list,
     Cirrus |-> cirrus_list, Ozone |-> ozone_list,
     PrevWeight |-> weight_prev_cams_date_list,
     NextWeight |-> weight_next_cams_date_list,
     PrevAOT |-> prev_aot_list, NextAOT |-> next_aot_list,
     TotalAOT |-> total_AOT_list]

ScalarCols == DOMAIN ScalarData

\* pd.DataFrame(data=dict) wants all its columns of one length
DictFrameRaises(data) == \E c, e \in DOMAIN data : Len(data[c]) # Len(data[e])

\* shape of the values pd.DataFrame sees: a 1-D array becomes one column
PropsShape(arr) ==
    IF arr.ndim = 1 THEN <<Len(arr.data[1]), 1>>
    ELSE <<Len(arr.data), Len(arr.data[1])>>

\* pd.DataFrame(array, columns=..) wants one name per column of the values
PropsFrameRaises(arr, columns) == PropsShape(arr)[2] # Len(columns)

\* the rows of pd.DataFrame(array, columns=..)
PropsFrameRows(arr) ==
    IF arr.ndim = 1 THEN [i \in 1..Len(arr.data[1]) |-> <<arr.data[1][i]>>]
    ELSE arr.data

Pad(s, n) == [i \in 1..n |-> IF i <= Len(s) THEN s[i] ELSE NaN]

\* pd.concat([df, props_df], axis=1): outer join on the row index
ConcatFrames(data, rows, columns) ==
    LET n == Max({Len(data.Date), Len(rows)}) IN
    [built |-> TRUE,
     nrows |-> n,
     cols |-> [c \in DOMAIN data |-> Pad(data[c], n)],
     aerosols |-> columns,
     props |-> [i \in 1..n |-> IF i <= Len(rows) THEN rows[i]
                               ELSE [j \in 1..Len(columns) |-> NaN]]]

\* the exception the body of the try raises, "none" when it returns
BuildRaises ==
    IF DictFrameRaises(ScalarData) \/ PropsFrameRaises(props_arr, props_list)
    THEN "ValueError" ELSE "none"

BuildingMaqtDataframe ==
    /\ pc = "build"
    /\ IF BuildRaises = "UnboundLocalError"
       THEN /\ stdout' = Append(stdout, "ERROR: file doesn't seem to contain expected fields")
            /\ exit_code' = 1
            /\ pc' = "exited"
            /\ UNCHANGED <<df, exc, raised_in>>
       ELSE IF BuildRaises # "none"
       THEN /\ Uncaught(BuildRaises, "_building_maqt_dataframe")
            /\ UNCHANGED <<df, stdout>>
       ELSE /\ df' = ConcatFrames(ScalarData, PropsFrameRows(props_arr), props_list)
            /\ pc' = "plot_aerosols"
            /\ UNCHANGED <<stdout, exc, raised_in, exit_code>>
    /\ UNCHANGED <<file, raw, line, accs, total_AOT_list, artifacts>>

(***************************************************************************)
(* main(): the three outputs, then exit.                                   *)
(***************************************************************************)
PlotAerosols ==
    /\ pc = "plot_aerosols"
    /\ artifacts' = Append(artifacts, "_aerosols.png")
    /\ pc' = "plot_clouds"
    /\ UNCHANGED <<file, raw, line, accs, total_AOT_list, df, stdout, exc,
                   raised_in, exit_code>>

PlotClouds ==
    /\ pc = "plot_clouds"
    /\ artifacts' = Append(artifacts, "_clouds.png")
    /\ pc' = "save_table"
    /\ UNCHANGED <<file, raw, line, accs, total_AOT_list, df, stdout, exc,
                   raised_in, exit_code>>

SaveTable ==
    /\ pc = "save_table"
    /\ artifacts' = Append(artifacts, "_table.csv")
    /\ pc' = "done"
    /\ UNCHANGED <<file, raw, line, accs, total_AOT_list, df, stdout, exc,
                   raised_in, exit_code>>

Done ==
    /\ pc = "done"
    /\ stdout' = Append(stdout, "INFO: Done...")
    /\ exit_code' = 0
    /\ pc' = "exited"
    /\ UNCHANGED <<file, raw, line, accs, total_AOT_list, df, exc, raised_in,
                   artifacts>>

Next ==
    \/ GetFileText
    \/ ParseLine
    \/ ParseReturn
    \/ Interpolate
    \/ BuildingMaqtDataframe
    \/ PlotAerosols
    \/ PlotClouds
    \/ SaveTable
    \/ Done

Spec == Init /\ [][Next]_vars

(***************************************************************************)
(* Vocabulary of the properties, read off the input file.                  *)
(***************************************************************************)
\* the lines of ls that match the pattern of field f, in file order
LinesOf(f, ls) == SelectSeq(ls, LAMBDA l : Matches(f, l))

Count(f, ls) == Len(LinesOf(f, ls))

\* the lines the loop has gone through
Processed == SubSeq(raw, 1, line)

\* some trigger pattern matches l and its payload cannot be parsed
Malformed(l) == \E i \in 1..Len(Fields) :
                    Matches(Fields[i], l) /\ ~Parses(Fields[i], l)

KeySet(l) == {l.tok1.ps[i][1] : i \in 1..Len(l.tok1.ps)}

\* the names of S in alphabetical order
SortedNames(S) ==
    CHOOSE q \in [1..Cardinality(S) -> S] :
        \A i, j \in 1..Cardinality(S) : i < j => NameRank(q[i]) < NameRank(q[j])

\* the fraction line l gives to aerosol n
ValueOf(l, n) == LET i == CHOOSE i \in 1..Len(l.tok1.ps) : l.tok1.ps[i][1] = n
                 IN l.tok1.ps[i][2]

\* the values of l in the order of the sorted names
SortedValues(l) == LET q == SortedNames(KeySet(l))
                   IN [i \in 1..Len(q) |-> ValueOf(l, q[i])]

\* N date lines, N lines of every other field, all well formed, and the
\* proportion lines all over one non-empty set of aerosol names
ValidLog(ls) ==
    /\ \A i \in 1..Len(ls) : ~Malformed(ls[i])
    /\ Count("date", ls) >= 1
    /\ \A i \in 1..Len(Fields) : Count(Fields[i], ls) = Count("date", ls)
    /\ \A i \in 1..Count("props", ls) :
          /\ KeySet(LinesOf("props", ls)[i]) = KeySet(LinesOf("props", ls)[1])
          /\ KeySet(LinesOf("props", ls)[i]) # {}

MissingFieldsMessage == "ERROR: file doesn't seem to contain expected fields"

\* number of rows held by the aerosol accumulator
PropsRows == IF props_arr.bound THEN Len(props_arr.data) ELSE 0

\* the run stopped inside the loop of _parse_maqt_log
ParseAborted == pc = "exited" /\ raw # <<>> /\ line < Len(raw)

(***************************************************************************)
(* C1: for every valid log of N >= 1 date lines and N proportion lines     *)
(* over one set of K >= 1 names (N lines of every other field), the table  *)
(* is built with N rows and the K aerosol columns of the first line in     *)
(* sorted order, row i holding the values of the i-th proportion line;     *)
(* N = 1 with K >= 2 included.                                             *)
(***************************************************************************)
C1_TableOfValidLog ==
    (pc = "exited" /\ file.exists /\ ValidLog(file.lines)) =>
        /\ df.built
        /\ df.nrows = Count("date", file.lines)
        /\ df.aerosols = SortedNames(KeySet(LinesOf("props", file.lines)[1]))
        /\ \A i \in 1..Count("props", file.lines) :
              df.props[i] = SortedValues(LinesOf("props", file.lines)[i])

(***************************************************************************)
(* C2: a log without any proportion line ends with the missing-fields      *)
(* message printed by the handler of the table assembly, a non-zero exit   *)
(* status and no artifact.                                                 *)
(***************************************************************************)
C2_NoPropsIsUnrecognizedDialect ==
    (pc = "exited" /\ file.exists /\ Count("props", file.lines) = 0) =>
        /\ stdout = <<MissingFieldsMessage>>
        /\ exit_code # 0
        /\ artifacts = <<>>

(***************************************************************************)
(* C4: when one of the ten fields has no matching line, the table is not   *)
(* built and the run ends with the missing-fields message and exit         *)
(* status 1, without artifacts.                                            *)
(***************************************************************************)
C4_MissingFieldFails ==
    (pc = "exited" /\ file.exists
       /\ \E i \in 1..Len(Fields) : Count(Fields[i], file.lines) = 0) =>
        /\ ~df.built
        /\ stdout = <<MissingFieldsMessage>>
        /\ exit_code = 1
        /\ artifacts = <<>>

(***************************************************************************)
(* C9: once a proportion line has been processed, the column names are the *)
(* sorted key set of the first proportion line, whatever the later lines   *)
(* hold and also when the first map is empty.                              *)
(***************************************************************************)
C9_ColumnsFixedByFirstLine ==
    (~ParseAborted /\ Count("props", Processed) >= 1) =>
        props_list = SortedNames(KeySet(LinesOf("props", Processed)[1]))

(***************************************************************************)
(* C10: every pattern is tested on every line: after any number of lines, *)
(* each scalar series holds, in file order, one value per processed line   *)
(* matching its pattern, and the aerosol accumulator one row per processed *)
(* proportion line.                                                        *)
(***************************************************************************)
ValuesOf(f, ls) == [i \in 1..Count(f, ls) |-> Extract(f, LinesOf(f, ls)[i])]

C10_OneValuePerMatchingLine ==
    ~ParseAborted =>
        /\ date_list = ValuesOf("date", Processed)
        /\ rh_list = ValuesOf("rh", Processed)
        /\ cloud_list = ValuesOf("cloud", Processed)
        /\ cirrus_list = ValuesOf("cirrus", Processed)
        /\ ozone_list = ValuesOf("ozone", Processed)
        /\ weight_prev_cams_date_list = ValuesOf("wprev", Processed)
        /\ weight_next_cams_date_list = ValuesOf("wnext", Processed)
        /\ prev_aot_list = ValuesOf("paot", Processed)
        /\ next_aot_list = ValuesOf("naot", Processed)
        /\ PropsRows = Count("props", Processed)

Lens == <<Len(weight_prev_cams_date_list), Len(prev_aot_list),
          Len(weight_next_cams_date_list), Len(next_aot_list)>>

LengthsDiffer == \E i, j \in 1..4 : Lens[i] # Lens[j]

\* every two of the four lengths are equal or one of them is 1
Compatible == \A i, j \in 1..4 : Lens[i] = Lens[j] \/ Lens[i] = 1 \/ Lens[j] = 1

InterpolateReturned ==
    \/ pc \in {"build", "plot_aerosols", "plot_clouds", "save_table", "done"}
    \/ pc = "exited" /\ raised_in = "_building_maqt_dataframe"
    \/ pc = "exited" /\ artifacts # <<>>

InterpolateRaised == pc = "exited" /\ raised_in = "_interpolate_total_aot"

\* C5 as stated: whenever the four lengths are not all equal, computing
\* TotalAOT raises a shape-mismatch error and yields no TotalAOT.
C5_MismatchRaises ==
    (LengthsDiffer /\ (InterpolateReturned \/ InterpolateRaised)) =>
        /\ InterpolateRaised
        /\ exc = "ValueError"
        /\ total_AOT_list = <<>>

\* C5 amended: unequal lengths are fatal to the run.  Computing TotalAOT
\* raises exactly when two of the lengths differ and neither is 1; otherwise
\* numpy broadcasts, TotalAOT has the length of the sequences that are not of
\* length 1, and the table assembly then raises: no table, no artifact.
C5_MismatchIsFatal ==
    (LengthsDiffer /\ (InterpolateReturned \/ InterpolateRaised)) =>
        /\ InterpolateRaised <=> ~Compatible
        /\ InterpolateRaised =>
              /\ exc = "ValueError"
              /\ exit_code = 1
              /\ total_AOT_list = <<>>
        /\ InterpolateReturned =>
              /\ \E i \in 1..4 : Lens[i] # 1 /\ Len(total_AOT_list) = Lens[i]
              /\ pc \in {"build", "exited"}
              /\ pc = "exited" => /\ raised_in = "_building_maqt_dataframe"
                                  /\ exc = "ValueError"
                                  /\ exit_code = 1
        /\ ~df.built
        /\ artifacts = <<>>

\* one previous weight against two of each other sequence: broadcast, then
\* refused by the table assembly
C5_Witness ==
    /\ Lens = <<1, 2, 2, 2>>
    /\ Len(total_AOT_list) = 2
    /\ pc = "exited"
    /\ raised_in = "_building_maqt_dataframe"

(***************************************************************************)
(* C6: no partial results.  In a log holding a line that matches a pattern *)
(* and whose payload does not parse, the loop never goes past the first    *)
(* such line, the run ends there with an uncaught exception (or earlier,   *)
(* on a proportion line that np.vstack refuses), no table is built and no  *)
(* artifact is written.  An artifact is written only after the parse, the  *)
(* TotalAOT computation and the table assembly have all completed.         *)
(***************************************************************************)
HasMalformed(ls) == \E k \in 1..Len(ls) : Malformed(ls[k])

FirstMalformed(ls) == CHOOSE k \in 1..Len(ls) :
                          /\ Malformed(ls[k])
                          /\ \A j \in 1..(k - 1) : ~Malformed(ls[j])

C6_NoPartialResults ==
    /\ (pc # "get_file_text" /\ HasMalformed(raw)) =>
          /\ line < FirstMalformed(raw)
          /\ pc \in {"parse", "exited"}
          /\ ~df.built
          /\ artifacts = <<>>
          /\ pc = "exited" =>
                /\ exit_code = 1
                /\ exc # "none"
                /\ raised_in = "_parse_maqt_log"
                /\ \/ line = FirstMalformed(raw) - 1
                   \/ Matches("props", raw[line + 1])
    /\ artifacts # <<>> =>
          /\ line = Len(raw)
          /\ props_arr.bound
          /\ exc = "none"
          /\ total_AOT_list = NpAdd(NpMul(weight_prev_cams_date_list, prev_aot_list),
                                    NpMul(weight_next_cams_date_list, next_aot_list))
          /\ df.built

\* the run died on a malformed line that is neither the first nor the last
C6_Witness ==
    /\ pc = "exited"
    /\ HasMalformed(raw)
    /\ line >= 1
    /\ line = FirstMalformed(raw) - 1
    /\ Len(raw) > line + 1
    /\ exit_code = 1

(***************************************************************************)
(* C7: a file that does not exist ends the run with the not-found message *)
(* and exit code 1 before any line is parsed, any table built or any       *)
(* artifact written; exit code 0 is reached only after the aerosols chart, *)
(* the clouds chart and the table have been written, in that order.        *)
(***************************************************************************)
C7_FileNotFoundAndExitZero ==
    /\ ~file.exists =>
          /\ pc \in {"get_file_text", "exited"}
          /\ raw = <<>> /\ line = 0
          /\ ~df.built
          /\ artifacts = <<>>
          /\ exc = "none"
          /\ pc = "exited" => /\ stdout = <<"ERROR: file not found">>
                              /\ exit_code = 1
    /\ (pc = "exited" /\ exit_code = 0) =>
          artifacts = <<"_aerosols.png", "_clouds.png", "_table.csv">>

C7_Witness ==
    /\ ~file.exists
    /\ pc = "exited"
    /\ stdout # <<>>

(***************************************************************************)
(* C8: a cloud line whose percentage p is well formed with 0 <= p <= 100  *)
(* appends p/100, which lies in [0,1]; when all cloud lines are so, every  *)
(* entry of the Cloud column of a built table that comes from a cloud line *)
(* is in [0,1] (rows padded by pd.concat hold the missing value).          *)
(***************************************************************************)
PercentInRange(l) == 0 <= l.tok2.v /\ l.tok2.v <= Hundred * One

====
